---- MODULE Spec2Model ----
(***************************************************************************)
(* Verification model of nn-toolbox:                                       *)
(*   - SupervisedImageLearner.learn_one_iter (vision/learner/supervised.py)*)
(*   - the pair / triplet selectors (vision/utils/selector.py)             *)
(*   - the regularizer callbacks (callbacks/regularization.py)             *)
(*   - StochasticWeightAveraging (callbacks/swa.py)                        *)
(* The module holds one specification per subsystem: SpecLearner (one      *)
(* learn_one_iter call per step), SpecSelector (one selector call on one   *)
(* batch), SpecBatchHard (get_batch_hard_triplets on one batch), SpecWide  *)
(* (get_all_pairs / get_all_triplets on batches of more than 256 rows),    *)
(* SpecReg (one after_losses call of a regularizer) and SpecSWA (the hooks *)
(* of StochasticWeightAveraging over a run).  Each leaves the variables of *)
(* the other subsystems at their initial values.                           *)
(***************************************************************************)
EXTENDS Integers, Sequences, FiniteSets, TLC

VARIABLES
    \* ---- learner ----
    device,        \* self._device.type of the learner / embeddings.device
    mixup,         \* self._mixup
    callbacks,     \* the registered extensions, in registration order
    iter_cnt,      \* number of learn_one_iter calls made so far
    trace,         \* events of the most recent learn_one_iter call
    \* ---- selectors ----
    embeddings,    \* N x 1 embedding matrix (one integer coordinate per row)
    labels,        \* N-length label vector
    result,        \* outcome of the most recent selector / mining call
    \* ---- regularizers ----
    losses,        \* the loss payload (a mapping from loss name to value)
    loss_name,     \* self.loss_name of the extension
    optimized,     \* interpreter run with assertions stripped (python -O)
    hook_store,    \* ActivationRegularization.hook.store
    self_output,   \* FlatMinimaSearch.output
    self_input,    \* DoubleBackpropagationCB.input
    reg_result,    \* outcome of the most recent after_losses call
    \* ---- stochastic weight averaging ----
    swa            \* the StochasticWeightAveraging extension and its run

vars == <<device, mixup, callbacks, iter_cnt, trace,
          embeddings, labels, result,
          losses, loss_name, optimized, hook_store, self_output, self_input,
          reg_result, swa>>

learnerVars == <<device, mixup, callbacks, iter_cnt, trace>>
selectorVars == <<embeddings, labels, result>>
regVars == <<losses, loss_name, optimized, hook_store, self_output,
             self_input, reg_result>>
swaVars == <<swa>>

----------------------------------------------------------------------------
\* Bounds of the model
NumExt == 2        \* number of registered extensions
MaxIters == 2      \* number of learn_one_iter calls explored

Devices == {"cpu", "cuda"}

----------------------------------------------------------------------------
\* Learner: SupervisedImageLearner.learn_one_iter

Exts == 1..NumExt

NoKeys == {}

\* One observable step of a learn_one_iter call.
\*   kind "hook"     : the hook `name` of extension `ext` was invoked and
\*                     returned `ret` (control hooks) / `arg` (transform hooks)
\*   kind "dispatch" : the dispatcher method `name` returned `ret` / `arg`;
\*                     `keys` are the keys of the payload it was given
\*   kind "act"      : the learner performed the opaque action `name` on `arg`
Ev(kind, name, ext, ret, arg, keys) ==
    [kind |-> kind, name |-> name, ext |-> ext, ret |-> ret, arg |-> arg,
     keys |-> keys]

\* Results an extension may return from a control hook: an extension that
\* does not override the hook inherits the default, which returns True.
ControlResults ==
    {r \in [Exts -> BOOLEAN] : \A i \in Exts : ~callbacks[i].ctl => r[i]}

\* Dispatcher, control dispatch: every extension's hook is invoked in
\* registration order and the results are combined with logical AND.
ControlDispatch(name, res) ==
    [ret |-> \A i \in Exts : res[i],
     calls |-> [i \in Exts |-> Ev("hook", name, i, res[i], 0, NoKeys)]
               \o <<Ev("dispatch", name, 0, \A i \in Exts : res[i], 0, NoKeys)>>]

\* Extension i's transform hook `name`: on_batch_begin substitutes the batch
\* (here: shifts its tag), every other transform hook is the inherited
\* identity.
ExtTransform(i, name, data) ==
    IF name = "on_batch_begin" THEN data + callbacks[i].shift ELSE data

\* Dispatcher, transform dispatch: the payload is folded through the
\* extensions in registration order.
RECURSIVE Fold(_, _, _)
Fold(name, data, i) ==
    IF i = 0 THEN data ELSE ExtTransform(i, name, Fold(name, data, i - 1))

TransformDispatch(name, data, keys) ==
    [ret |-> Fold(name, data, NumExt),
     calls |-> [i \in Exts |->
                  Ev("hook", name, i, TRUE, Fold(name, data, i), keys)]
               \o <<Ev("dispatch", name, 0, TRUE, Fold(name, data, NumExt),
                       keys)>>]

\* Dispatcher, pure dispatch (on_batch_end): all extensions, no aggregation.
PureDispatch(name, data, keys) ==
    [i \in Exts |-> Ev("hook", name, i, TRUE, data, keys)]
    \o <<Ev("dispatch", name, 0, TRUE, data, keys)>>

\* Opaque collaborators, as uninterpreted injective tags.
transform_data(images) == images + 10
compute_loss(images) == 2 * images + 1

Act(name, arg) == Ev("act", name, 0, TRUE, arg, NoKeys)

\* The on_batch_end call of learn_one_iter (lines 46-50).
batch_end(loss) ==
    IF device = "cuda"
    THEN PureDispatch("on_batch_end", loss, {"loss", "allocated_memory"})
    ELSE PureDispatch("on_batch_end", loss, {"loss"})

\* learn_one_iter with the step gate ignored (the optimizer always steps).
learn_one_iter_ungated(images, obb, ab, as) ==
    LET begin == TransformDispatch("on_batch_begin", images, {"inputs", "labels"})
        data == begin.ret
        mixed == IF mixup THEN transform_data(data) ELSE data
        al == TransformDispatch("after_losses", compute_loss(mixed), {"loss"})
        loss == al.ret
        d1 == ControlDispatch("on_backward_begin", obb)
        d2 == ControlDispatch("after_backward", ab)
        d3 == ControlDispatch("after_step", as)
    IN  begin.calls
        \o (IF mixup THEN <<Act("transform_data", data)>> ELSE <<>>)
        \o <<Act("compute_loss", mixed)>>
        \o al.calls
        \o d1.calls
        \o <<Act("backward", loss)>>
        \o d2.calls
        \o <<Act("step", 0)>> \o d3.calls
        \o (IF d3.ret THEN <<Act("zero_grad", 0)>> ELSE <<>>)
        \o batch_end(loss)

\* learn_one_iter computing the loss on the raw batch it was handed.
learn_one_iter_rawbatch(images, obb, ab, as) ==
    LET begin == TransformDispatch("on_batch_begin", images, {"inputs", "labels"})
        data == images
        mixed == IF mixup THEN transform_data(data) ELSE data
        al == TransformDispatch("after_losses", compute_loss(mixed), {"loss"})
        loss == al.ret
        d1 == ControlDispatch("on_backward_begin", obb)
        d2 == ControlDispatch("after_backward", ab)
        d3 == ControlDispatch("after_step", as)
    IN  begin.calls
        \o (IF mixup THEN <<Act("transform_data", data)>> ELSE <<>>)
        \o <<Act("compute_loss", mixed)>>
        \o al.calls
        \o d1.calls
        \o (IF d1.ret THEN <<Act("backward", loss)>> ELSE <<>>)
        \o d2.calls
        \o (IF d2.ret
            THEN <<Act("step", 0)>> \o d3.calls
                 \o (IF d3.ret THEN <<Act("zero_grad", 0)>> ELSE <<>>)
                 \o batch_end(loss)
            ELSE <<>>)

\* The events of one call learn_one_iter(images, labels) in which the
\* extensions answer the control hooks with obb, ab and as.
learn_one_iter(images, obb, ab, as) ==
    LET begin == TransformDispatch("on_batch_begin", images, {"inputs", "labels"})
        data == begin.ret
        mixed == IF mixup THEN transform_data(data) ELSE data
        al == TransformDispatch("after_losses", compute_loss(mixed), {"loss"})
        loss == al.ret
        d1 == ControlDispatch("on_backward_begin", obb)
        d2 == ControlDispatch("after_backward", ab)
        d3 == ControlDispatch("after_step", as)
    IN  begin.calls
        \o (IF mixup THEN <<Act("transform_data", data)>> ELSE <<>>)
        \o <<Act("compute_loss", mixed)>>
        \o al.calls
        \o d1.calls
        \o (IF d1.ret THEN <<Act("backward", loss)>> ELSE <<>>)
        \o d2.calls
        \o (IF d2.ret
            THEN <<Act("step", 0)>> \o d3.calls
                 \o (IF d3.ret THEN <<Act("zero_grad", 0)>> ELSE <<>>)
                 \o batch_end(loss)
            ELSE <<>>)

\* One call of learn_one_iter on the next batch of the data loader.
LearnOneIter ==
    /\ iter_cnt < MaxIters
    /\ \E obb \in ControlResults, ab \in ControlResults, as \in ControlResults :
           \* after_step is dispatched only when the step ran
           /\ (\E i \in Exts : ~ab[i]) => (\A i \in Exts : as[i])
           /\ trace' = learn_one_iter(iter_cnt, obb, ab, as)
    /\ iter_cnt' = iter_cnt + 1
    /\ UNCHANGED <<device, mixup, callbacks>>
    /\ UNCHANGED <<selectorVars, regVars, swaVars>>

----------------------------------------------------------------------------
\* Selectors: vision/utils/selector.py

MaxBatch == 4      \* largest batch size N explored
NumLabels == 2     \* labels are drawn from 0..NumLabels-1
MaxCoord == 1      \* embedding coordinates are drawn from 0..MaxCoord

UInt8Range == 256  \* number of values of numpy.uint8

WideExtra == 2     \* wide batches have up to UInt8Range + WideExtra rows
WideDup == 20      \* number of alternatives for the repeated label

Min(S) == CHOOSE x \in S : \A y \in S : x <= y
Max(S) == CHOOSE x \in S : \A y \in S : x >= y

\* lab[i] for a 0-based batch position i.
At(lab, i) == lab[i + 1]

\* itertools.combinations(range(n), 2): all (i, j), i < j, lexicographically.
\* The pairs with first member in lo..hi; the range is halved so that the
\* evaluation depth stays logarithmic in n.
RECURSIVE CombinationsFrom(_, _, _)
CombinationsFrom(lo, hi, n) ==
    IF lo > hi THEN <<>>
    ELSE IF lo = hi THEN [k \in 1..(n - 1 - lo) |-> <<lo, lo + k>>]
    ELSE LET mid == (lo + hi) \div 2
         IN  CombinationsFrom(lo, mid, n) \o CombinationsFrom(mid + 1, hi, n)

combinations(n) == CombinationsFrom(0, n - 2, n)

\* ndarray.astype(np.uint8) of a non-negative integer: wraps modulo 2^8.
astype_uint8(x) == x % UInt8Range

Raised(op) ==
    [op |-> op, raised |-> TRUE, pos |-> <<>>, neg |-> <<>>, triplets |-> <<>>,
     first |-> <<>>, second |-> <<>>, third |-> <<>>, sim |-> <<>>]

Pairs(op, pos, neg) ==
    [op |-> op, raised |-> FALSE, pos |-> pos, neg |-> neg, triplets |-> <<>>,
     first |-> <<>>, second |-> <<>>, third |-> <<>>, sim |-> <<>>]

Triplets(op, t) ==
    [op |-> op, raised |-> FALSE, pos |-> <<>>, neg |-> <<>>, triplets |-> t,
     first |-> <<>>, second |-> <<>>, third |-> <<>>, sim |-> <<>>]

\* get_all_pairs(labels).  With fewer than two labels the list of
\* combinations is empty, np.array([]) is one-dimensional and all_pairs[:, 0]
\* raises IndexError.
get_all_pairs(lab) ==
    LET comb == combinations(Len(lab))
        all_pairs == [k \in DOMAIN comb |->
                        <<astype_uint8(comb[k][1]), astype_uint8(comb[k][2])>>]
    IN  IF Len(all_pairs) = 0 THEN Raised("get_all_pairs")
        ELSE Pairs("get_all_pairs",
                   SelectSeq(all_pairs,
                             LAMBDA pr : At(lab, pr[1]) = At(lab, pr[2])),
                   SelectSeq(all_pairs,
                             LAMBDA pr : At(lab, pr[1]) # At(lab, pr[2])))

\* The inner loop of get_all_triplets for one positive pair.
JoinOne(pos, neg_pairs) ==
    LET hit == SelectSeq(neg_pairs, LAMBDA neg : pos[1] = neg[1])
    IN  [k \in DOMAIN hit |-> <<pos[1], pos[2], hit[k][2]>>]

RECURSIVE JoinFrom(_, _, _)
JoinFrom(pos_pairs, neg_pairs, k) ==
    IF k > Len(pos_pairs) THEN <<>>
    ELSE JoinOne(pos_pairs[k], neg_pairs) \o JoinFrom(pos_pairs, neg_pairs, k + 1)

\* get_all_triplets(labels)
get_all_triplets(lab) ==
    LET pr == get_all_pairs(lab)
    IN  IF pr.raised THEN Raised("get_all_triplets")
        ELSE Triplets("get_all_triplets", JoinFrom(pr.pos, pr.neg, 1))

\* emb_pairwise_dist(embeddings, False)[i, j] for one-coordinate embeddings.
dist_mat(emb, i, j) ==
    IF At(emb, i) >= At(emb, j) THEN At(emb, i) - At(emb, j)
    ELSE At(emb, j) - At(emb, i)

\* np.where(labels == c)[0]: the 0-based positions holding c, ascending.
WhereEq(lab, c) ==
    SelectSeq([k \in 1..Len(lab) |-> k - 1], LAMBDA i : At(lab, i) = c)

\* np.where(labels != c)[0]
WhereNe(lab, c) ==
    SelectSeq([k \in 1..Len(lab) |-> k - 1], LAMBDA i : At(lab, i) # c)

\* torch.argmax / torch.argmin of a non-empty vector, as a 1-based position;
\* `t` says which of several equal extrema is reported.
TiePolicies == {"first", "last"}

Pick(S, t) == IF t = "first" THEN Min(S) ELSE Max(S)

argmin(d, t) ==
    Pick({k \in DOMAIN d : \A m \in DOMAIN d : d[k] <= d[m]}, t)

\* argmax with the comparison turned around
argmax_flipped(d, t) == argmin(d, t)

argmax(d, t) ==
    Pick({k \in DOMAIN d : \A m \in DOMAIN d : d[k] >= d[m]}, t)

\* The body of `for an in c_idx` of get_batch_hard_triplets.
HardTriplet(emb, an, c_idx, other_idx, t) ==
    LET pos_pairs == SelectSeq(c_idx, LAMBDA p : p # an)
        pos_pair_dist == [k \in DOMAIN pos_pairs |-> dist_mat(emb, an, pos_pairs[k])]
        neg_pair_dist == [k \in DOMAIN other_idx |-> dist_mat(emb, an, other_idx[k])]
        hardest_pos == argmax(pos_pair_dist, t)
        hardest_neg == argmin(neg_pair_dist, t)
    IN  <<an, pos_pairs[hardest_pos], other_idx[hardest_neg]>>

\* The body of `for c in unique_class` of get_batch_hard_triplets.
ClassTriplets(emb, lab, c, t) ==
    LET c_idx == WhereEq(lab, c)
        other_idx == WhereNe(lab, c)
    IN  IF Len(c_idx) < 2 THEN <<>>
        ELSE IF Len(other_idx) < 1 THEN <<>>
        ELSE [k \in DOMAIN c_idx |-> HardTriplet(emb, c_idx[k], c_idx, other_idx, t)]

RECURSIVE BatchHardFrom(_, _, _, _, _)
BatchHardFrom(emb, lab, order, t, k) ==
    IF k > Len(order) THEN <<>>
    ELSE ClassTriplets(emb, lab, order[k], t)
         \o BatchHardFrom(emb, lab, order, t, k + 1)

\* get_batch_hard_triplets(embeddings, labels); `order` is the order in which
\* the set unique_class is iterated.
get_batch_hard_triplets(emb, lab, order, t) ==
    Triplets("get_batch_hard_triplets", BatchHardFrom(emb, lab, order, t, 1))

\* set(labels.ravel()) and the orders in which it may be iterated.
unique_class(lab) == {lab[k] : k \in DOMAIN lab}

Orders(S) ==
    {o \in [1..Cardinality(S) -> S] : \A a, b \in DOMAIN o : o[a] = o[b] => a = b}

\* torch.index_select(embeddings, dim=0, index): the rows at the given
\* positions; fails unless the index tensor is on the device of embeddings.
index_select(emb, dev, index, index_dev) ==
    IF index_dev # dev THEN [raised |-> TRUE, rows |-> <<>>]
    ELSE [raised |-> FALSE, rows |-> [k \in DOMAIN index |-> At(emb, index[k])]]

Column(pairs, c) == [k \in DOMAIN pairs |-> pairs[k][c]]

\* PairSelector.select given the outcome pr of get_pairs.  The index of the
\* first members of the negative pairs is moved to embeddings.device only
\* after index_select has used it (line 33), so it is still on the CPU there.
PairSelector_select(op, emb, dev, pr) ==
    IF pr.raised THEN Raised(op)
    ELSE LET pos0 == index_select(emb, dev, Column(pr.pos, 1), dev)
             neg0 == index_select(emb, dev, Column(pr.neg, 1), "cpu")
             pos1 == index_select(emb, dev, Column(pr.pos, 2), dev)
             neg1 == index_select(emb, dev, Column(pr.neg, 2), dev)
         IN  IF pos0.raised \/ neg0.raised \/ pos1.raised \/ neg1.raised
             THEN Raised(op)
             ELSE [op |-> op, raised |-> FALSE, pos |-> pr.pos, neg |-> pr.neg,
                   triplets |-> <<>>,
                   first |-> pos0.rows \o neg0.rows,
                   second |-> pos1.rows \o neg1.rows,
                   third |-> <<>>,
                   sim |-> [k \in 1..Len(pr.pos) |-> 1]
                           \o [k \in 1..Len(pr.neg) |-> 0]]

\* TripletSelector.select given the outcome tr of get_triplets.  An empty
\* list of triplets makes np.array(triplets) one-dimensional, and
\* triplets[:, 0] raises IndexError.
TripletSelector_select(op, emb, dev, tr) ==
    IF tr.raised THEN Raised(op)
    ELSE IF Len(tr.triplets) = 0 THEN Raised(op)
    ELSE LET anchors == index_select(emb, dev, Column(tr.triplets, 1), dev)
             pos == index_select(emb, dev, Column(tr.triplets, 2), dev)
             negs == index_select(emb, dev, Column(tr.triplets, 3), dev)
         IN  IF anchors.raised \/ pos.raised \/ negs.raised THEN Raised(op)
             ELSE [op |-> op, raised |-> FALSE, pos |-> <<>>, neg |-> <<>>,
                   triplets |-> tr.triplets,
                   first |-> anchors.rows, second |-> pos.rows,
                   third |-> negs.rows, sim |-> <<>>]

GetAllPairs ==
    /\ result.op = "none"
    /\ result' = get_all_pairs(labels)
    /\ UNCHANGED <<embeddings, labels, device>>
    /\ UNCHANGED <<mixup, callbacks, iter_cnt, trace, regVars, swaVars>>

GetAllTriplets ==
    /\ result.op = "none"
    /\ result' = get_all_triplets(labels)
    /\ UNCHANGED <<embeddings, labels, device>>
    /\ UNCHANGED <<mixup, callbacks, iter_cnt, trace, regVars, swaVars>>

GetBatchHardTriplets ==
    /\ result.op = "none"
    /\ \E order \in Orders(unique_class(labels)), t \in TiePolicies :
           result' = get_batch_hard_triplets(embeddings, labels, order, t)
    /\ UNCHANGED <<embeddings, labels, device>>
    /\ UNCHANGED <<mixup, callbacks, iter_cnt, trace, regVars, swaVars>>

AllPairSelect ==
    /\ result.op = "none"
    /\ result' = PairSelector_select("AllPairSelector.select", embeddings,
                                     device, get_all_pairs(labels))
    /\ UNCHANGED <<embeddings, labels, device>>
    /\ UNCHANGED <<mixup, callbacks, iter_cnt, trace, regVars, swaVars>>

AllTripletSelect ==
    /\ result.op = "none"
    /\ result' = TripletSelector_select("AllTripletSelector.select", embeddings,
                                        device, get_all_triplets(labels))
    /\ UNCHANGED <<embeddings, labels, device>>
    /\ UNCHANGED <<mixup, callbacks, iter_cnt, trace, regVars, swaVars>>

BatchHardSelect ==
    /\ result.op = "none"
    /\ \E order \in Orders(unique_class(labels)), t \in TiePolicies :
           result' = TripletSelector_select(
                         "BatchHardTripletSelector.select", embeddings, device,
                         get_batch_hard_triplets(embeddings, labels, order, t))
    /\ UNCHANGED <<embeddings, labels, device>>
    /\ UNCHANGED <<mixup, callbacks, iter_cnt, trace, regVars, swaVars>>

----------------------------------------------------------------------------
\* Regularizer extensions: callbacks/regularization.py

MaxLoss == 1       \* loss values and stored tensors are drawn from 0..MaxLoss

LossKeys == {"loss", "aux"}
LossNames == LossKeys \cup {"kl"}

\* The loss payloads: a value for each key of some set of keys.
Payloads == UNION {[K -> 0..MaxLoss] : K \in SUBSET LossKeys}

\* An attribute holding None / holding the tensor v.
None == <<>>
Tensor(v) == <<v>>

Outcome(outcome, ls, store, output, input) ==
    [outcome |-> outcome, losses |-> ls, store |-> store, output |-> output,
     input |-> input]

\* The call raised `exc`; nothing was assigned before it did.
Fail(exc, ls) == Outcome(exc, ls, hook_store, self_output, self_input)

\* `assert self.loss_name in losses`: checked unless assertions are stripped.
AssertFails(ls) == ~optimized /\ loss_name \notin DOMAIN ls

\* losses[self.loss_name] += x
AddTo(ls, x) == [ls EXCEPT ![loss_name] = @ + x]

\* WeightRegularization.after_losses
WR_after_losses(ls) ==
    IF AssertFails(ls) THEN Fail("AssertionError", ls)
    ELSE IF loss_name \notin DOMAIN ls THEN Fail("KeyError", ls)
    ELSE Outcome("returned", AddTo(ls, 1), hook_store, self_output, self_input)

\* ActivationRegularization.after_losses with a missing loss treated as 0.
AR_after_losses_default(ls) ==
    IF hook_store = None THEN Fail("AttributeError", ls)
    ELSE Outcome("returned",
                 [k \in DOMAIN ls \cup {loss_name} |->
                     IF k = loss_name
                     THEN (IF k \in DOMAIN ls THEN ls[k] ELSE 0) + hook_store[1]
                     ELSE ls[k]],
                 None, self_output, self_input)

\* ActivationRegularization.after_losses
AR_after_losses(ls) ==
    IF AssertFails(ls) THEN Fail("AssertionError", ls)
    ELSE IF loss_name \notin DOMAIN ls THEN Fail("KeyError", ls)
    ELSE IF hook_store = None THEN Fail("AttributeError", ls)
    ELSE Outcome("returned", AddTo(ls, hook_store[1]), None, self_output,
                 self_input)

\* FlatMinimaSearch.after_losses
FMS_after_losses(ls) ==
    IF AssertFails(ls) THEN Fail("AssertionError", ls)
    ELSE IF self_output = None THEN Fail("TypeError", ls)
    ELSE IF loss_name \notin DOMAIN ls THEN Fail("KeyError", ls)
    ELSE Outcome("returned", AddTo(ls, self_output[1]), hook_store, None,
                 self_input)

\* DoubleBackpropagationCB.after_losses
DBP_after_losses(ls) ==
    IF loss_name \notin DOMAIN ls THEN Fail("KeyError", ls)
    ELSE IF self_input = None THEN Fail("TypeError", ls)
    ELSE Outcome("returned", AddTo(ls, self_input[1]), hook_store, self_output,
                 None)

NotCalled == reg_result.op = "none"

AfterLosses(op, out) ==
    /\ NotCalled
    /\ reg_result' = [op |-> op, outcome |-> out.outcome]
    /\ losses' = out.losses
    /\ hook_store' = out.store
    /\ self_output' = out.output
    /\ self_input' = out.input
    /\ UNCHANGED <<loss_name, optimized>>
    /\ UNCHANGED <<learnerVars, selectorVars, swaVars>>

WeightRegAfterLosses ==
    AfterLosses("WeightRegularization", WR_after_losses(losses))

ActivationRegAfterLosses ==
    AfterLosses("ActivationRegularization", AR_after_losses(losses))

FlatMinimaAfterLosses ==
    AfterLosses("FlatMinimaSearch", FMS_after_losses(losses))

DoubleBackpropAfterLosses ==
    AfterLosses("DoubleBackpropagationCB", DBP_after_losses(losses))

\* The output hook of the regularized module fires during the forward pass.
ForwardHook ==
    /\ NotCalled
    /\ \E v \in 0..MaxLoss : hook_store' = Tensor(v)
    /\ UNCHANGED <<losses, loss_name, optimized, self_output, self_input,
                   reg_result>>
    /\ UNCHANGED <<learnerVars, selectorVars, swaVars>>

\* FlatMinimaSearch.after_outputs
AfterOutputs ==
    /\ NotCalled
    /\ \E v \in 0..MaxLoss : self_output' = Tensor(v)
    /\ UNCHANGED <<losses, loss_name, optimized, hook_store, self_input,
                   reg_result>>
    /\ UNCHANGED <<learnerVars, selectorVars, swaVars>>

\* DoubleBackpropagationCB.on_batch_begin
OnBatchBegin ==
    /\ NotCalled
    /\ \E v \in 0..MaxLoss : self_input' = Tensor(v)
    /\ UNCHANGED <<losses, loss_name, optimized, hook_store, self_output,
                   reg_result>>
    /\ UNCHANGED <<learnerVars, selectorVars, swaVars>>

----------------------------------------------------------------------------
\* Stochastic weight averaging: callbacks/swa.py

MaxAfter == 2      \* average_after is drawn from 0..MaxAfter
MaxEvery == 2      \* update_every is drawn from 1..MaxEvery
MaxParam == 1      \* the parameter of the trained model is drawn from 0..MaxParam
MaxCount == 5      \* the hooks are called with the counters 0..MaxCount-1

RECURSIVE GCD(_, _)
GCD(a, b) == IF b = 0 THEN a ELSE GCD(b, a % b)

\* A parameter value num / den in lowest terms.
Frac(num, den) ==
    LET g == GCD(num, den) IN [num |-> num \div g, den |-> den \div g]

\* n_model with average_after left out
n_model_from_zero(c) == c \div swa.every

\* n_model = (logs[counter] - self._average_after) // self._update_every
n_model(c) == (c - swa.after) \div swa.every

\* (param1.data + n_model * dict_params2[name1].data) / (n_model + 1)
Average(param, n, avg) ==
    Frac(param * avg.den + n * avg.num, avg.den * (n + 1))

\* The body shared by on_epoch_end and on_batch_end: the averaged parameter
\* after the hook of timescale `scale` was called with counter value c.
Update(scale, c) ==
    IF swa.timescale = scale
    THEN IF c >= swa.after /\ c % swa.every = 0
         THEN [updated |-> TRUE, n_model |-> n_model(c),
               avg |-> Average(swa.param, n_model(c), swa.avg)]
         ELSE [updated |-> FALSE, n_model |-> 0, avg |-> swa.avg]
    ELSE [updated |-> FALSE, n_model |-> 0, avg |-> swa.avg]

\* StochasticWeightAveraging.on_epoch_end(logs) with logs["epoch"] = c
on_epoch_end(c) == [upd |-> Update("epoch", c), ret |-> "False"]

\* StochasticWeightAveraging.on_batch_end(logs) with logs["iter_cnt"] = c
on_batch_end(c) == [upd |-> Update("iter", c), ret |-> "None"]

\* The bookkeeping of a hook call: what was called and what it did, the
\* number of averaging updates so far and the sum of the parameter values
\* they took in.
Hooked(hook, c, out) ==
    [swa EXCEPT
        !.avg = out.upd.avg,
        !.updates = @ + (IF out.upd.updated THEN 1 ELSE 0),
        !.snap_sum = @ + (IF out.upd.updated THEN swa.param ELSE 0),
        !.last = [hook |-> hook, counter |-> c, updated |-> out.upd.updated,
                  n_model |-> out.upd.n_model, ret |-> out.ret,
                  before |-> swa.avg]]

OnEpochEnd ==
    /\ swa.epoch < MaxCount
    /\ swa' = [Hooked("on_epoch_end", swa.epoch, on_epoch_end(swa.epoch))
                  EXCEPT !.epoch = @ + 1]
    /\ UNCHANGED <<learnerVars, selectorVars, regVars>>

OnBatchEnd ==
    /\ swa.iter < MaxCount
    /\ swa' = [Hooked("on_batch_end", swa.iter, on_batch_end(swa.iter))
                  EXCEPT !.iter = @ + 1]
    /\ UNCHANGED <<learnerVars, selectorVars, regVars>>

\* The optimizer changes the parameter of the trained model.
OptimizerStep ==
    /\ swa.iter < MaxCount
    /\ \E v \in 0..MaxParam :
           /\ v # swa.param
           /\ swa' = [swa EXCEPT !.param = v]
    /\ UNCHANGED <<learnerVars, selectorVars, regVars>>

NoHook == [hook |-> "none", counter |-> 0, updated |-> FALSE, n_model |-> 0,
           ret |-> "none", before |-> Frac(0, 1)]

\* StochasticWeightAveraging.__init__: model_swa is a copy of the model.
NewSWA(after, every, scale, param) ==
    [after |-> after, every |-> every, timescale |-> scale, param |-> param,
     avg |-> Frac(param, 1), iter |-> 0, epoch |-> 0, updates |-> 0,
     snap_sum |-> 0, last |-> NoHook]

SWAIdle == swa = NewSWA(0, 1, "iter", 0)

----------------------------------------------------------------------------
\* Initial values of the groups of variables, and the specifications

NoResult == Pairs("none", <<>>, <<>>)

SelectorIdle ==
    /\ embeddings = <<>>
    /\ labels = <<>>
    /\ result = NoResult

RegIdle ==
    /\ losses = <<>>
    /\ loss_name = "loss"
    /\ optimized = FALSE
    /\ hook_store = None
    /\ self_output = None
    /\ self_input = None
    /\ reg_result = [op |-> "none", outcome |-> "none"]

LearnerIdle ==
    /\ mixup = FALSE
    /\ callbacks = [i \in Exts |-> [ctl |-> FALSE, shift |-> 0]]
    /\ iter_cnt = 0
    /\ trace = <<>>

InitLearner ==
    /\ device \in Devices
    /\ mixup \in BOOLEAN
    /\ callbacks \in [Exts -> [ctl : BOOLEAN, shift : 0..1]]
    /\ iter_cnt = 0
    /\ trace = <<>>
    /\ SelectorIdle
    /\ RegIdle
    /\ SWAIdle

NextLearner == LearnOneIter

\* A batch: N >= 1 rows, one label and one embedding coordinate per row.
Batches ==
    UNION {[1..n -> (0..(NumLabels - 1)) \X (0..MaxCoord)] : n \in 1..MaxBatch}

InitSelector ==
    /\ device \in Devices
    /\ \E b \in Batches :
           /\ labels = [k \in DOMAIN b |-> b[k][1]]
           /\ embeddings = [k \in DOMAIN b |-> b[k][2]]
    /\ result = NoResult
    /\ LearnerIdle
    /\ RegIdle
    /\ SWAIdle

NextSelector ==
    \/ GetAllPairs
    \/ GetAllTriplets
    \/ AllPairSelect
    \/ AllTripletSelect
    \/ BatchHardSelect

SpecSelector == InitSelector /\ [][NextSelector]_vars

InitBatchHard ==
    /\ device = "cpu"
    /\ \E b \in Batches :
           /\ labels = [k \in DOMAIN b |-> b[k][1]]
           /\ embeddings = [k \in DOMAIN b |-> b[k][2]]
    /\ result = NoResult
    /\ LearnerIdle
    /\ RegIdle
    /\ SWAIdle

NextBatchHard == GetBatchHardTriplets

SpecBatchHard == InitBatchHard /\ [][NextBatchHard]_vars

SpecLearner == InitLearner /\ [][NextLearner]_vars

\* Batches wider than the range of uint8: N = 257 .. 256 + WideExtra rows
\* with pairwise different labels 0 .. N-2, except that the last row repeats
\* the label of one of the first WideDup rows.
WideBatches ==
    {[k \in 1..n |-> IF k < n THEN k - 1 ELSE d] :
        n \in (UInt8Range + 1)..(UInt8Range + WideExtra), d \in 0..(WideDup - 1)}

InitWide ==
    /\ device = "cpu"
    /\ labels \in WideBatches
    /\ embeddings = [k \in DOMAIN labels |-> (k - 1) % (MaxCoord + 1)]
    /\ result = NoResult
    /\ LearnerIdle
    /\ RegIdle
    /\ SWAIdle

NextWide ==
    \/ GetAllPairs
    \/ GetAllTriplets

SpecWide == InitWide /\ [][NextWide]_vars

InitReg ==
    /\ losses \in Payloads
    /\ loss_name \in LossNames
    /\ optimized \in BOOLEAN
    /\ hook_store = None
    /\ self_output = None
    /\ self_input = None
    /\ reg_result = [op |-> "none", outcome |-> "none"]
    /\ device = "cpu"
    /\ LearnerIdle
    /\ SelectorIdle
    /\ SWAIdle

NextReg ==
    \/ ForwardHook
    \/ AfterOutputs
    \/ OnBatchBegin
    \/ WeightRegAfterLosses
    \/ ActivationRegAfterLosses
    \/ FlatMinimaAfterLosses
    \/ DoubleBackpropAfterLosses

SpecReg == InitReg /\ [][NextReg]_vars

InitSWA ==
    /\ \E after \in 0..MaxAfter, every \in 1..MaxEvery,
          scale \in {"epoch", "iter"}, param \in 0..MaxParam :
           swa = NewSWA(after, every, scale, param)
    /\ device = "cpu"
    /\ LearnerIdle
    /\ SelectorIdle
    /\ RegIdle

NextSWA ==
    \/ OptimizerStep
    \/ OnBatchEnd
    \/ OnEpochEnd

SpecSWA == InitSWA /\ [][NextSWA]_vars

----------------------------------------------------------------------------
\* Properties of learn_one_iter

Called == iter_cnt > 0

Positions(kind, name) ==
    {k \in DOMAIN trace : trace[k].kind = kind /\ trace[k].name = name}

Count(kind, name) == Cardinality(Positions(kind, name))

\* The dispatcher method `name` was called and returned true.
Returned(name) == \E k \in Positions("dispatch", name) : trace[k].ret

ControlHooks == {"on_backward_begin", "after_backward", "after_step"}

\* The action each control dispatch guards.
Guarded(name) ==
    CASE name = "on_backward_begin" -> "backward"
      [] name = "after_backward" -> "step"
      [] name = "after_step" -> "zero_grad"

\* C1 (as claimed): every learn_one_iter call dispatches on_batch_end exactly
\* once, with a payload that has the key "loss", whatever on_backward_begin,
\* after_backward and after_step returned.
C1_BatchEndAlways ==
    Called =>
        /\ Count("dispatch", "on_batch_end") = 1
        /\ \A k \in Positions("dispatch", "on_batch_end") :
               "loss" \in trace[k].keys

\* C2: backward runs iff on_backward_begin returned true, step runs iff
\* after_backward returned true, zero_grad runs iff the step ran and
\* after_step returned true; each guarded action runs at most once per batch
\* and only directly after its gate returned true.
C2_Gating ==
    Called =>
        /\ Count("act", "backward") =
               (IF Returned("on_backward_begin") THEN 1 ELSE 0)
        /\ Count("act", "step") =
               (IF Returned("after_backward") THEN 1 ELSE 0)
        /\ Count("act", "zero_grad") =
               (IF Count("act", "step") = 1 /\ Returned("after_step")
                THEN 1 ELSE 0)
        /\ \A k \in Positions("act", "backward") :
               k > 1 /\ trace[k - 1] =
                   Ev("dispatch", "on_backward_begin", 0, TRUE, 0, NoKeys)
        /\ \A k \in Positions("act", "step") :
               k > 1 /\ trace[k - 1] =
                   Ev("dispatch", "after_backward", 0, TRUE, 0, NoKeys)
        /\ \A k \in Positions("act", "zero_grad") :
               k > 1 /\ trace[k - 1] =
                   Ev("dispatch", "after_step", 0, TRUE, 0, NoKeys)

\* C2 witness: a call in which the backward pass ran (its gate was true) and
\* the optimizer step did not (after_backward was vetoed).
C2_Witness ==
    /\ Called
    /\ Count("act", "backward") = 1
    /\ Count("act", "step") = 0
    /\ ~Returned("after_backward")

DispatchRank(name) ==
    CASE name = "on_batch_begin" -> 1
      [] name = "after_losses" -> 2
      [] name = "on_backward_begin" -> 3
      [] name = "after_backward" -> 4
      [] name = "after_step" -> 5
      [] name = "on_batch_end" -> 6

DispatchPositions == {k \in DOMAIN trace : trace[k].kind = "dispatch"}

\* The batch handed to the call: the data loader's batches are tagged by
\* their index.
RawBatch == iter_cnt - 1

\* The order and number of the dispatches of one call: they follow the fixed
\* order, the first four happen exactly once, after_step exactly when the
\* optimizer stepped and after the step.
DispatchOrder ==
    /\ \A k \in DispatchPositions, m \in DispatchPositions :
           k < m => DispatchRank(trace[k].name) < DispatchRank(trace[m].name)
    /\ \A name \in {"on_batch_begin", "after_losses", "on_backward_begin",
                    "after_backward"} :
           Count("dispatch", name) = 1
    /\ Count("dispatch", "after_step") = Count("act", "step")
    /\ \A k \in Positions("hook", "after_step") \cup
                Positions("dispatch", "after_step") :
           \E m \in Positions("act", "step") : m < k
    /\ \A k \in Positions("act", "backward") :
           \E m \in Positions("dispatch", "after_backward") : k < m

\* The loss computation follows the on_batch_begin dispatch and after_losses
\* is dispatched on its result.
LossAfterBegin ==
    /\ Count("act", "compute_loss") = 1
    /\ \A c \in Positions("act", "compute_loss") :
           /\ \A b \in Positions("dispatch", "on_batch_begin") : b < c
           /\ \A a \in Positions("dispatch", "after_losses") :
                  c < a /\ trace[a].arg = compute_loss(trace[c].arg)

----------------------------------------------------------------------------
\* Properties of the selectors

N == Len(labels)
Idx == 0..(N - 1)

Range(seq) == {seq[k] : k \in DOMAIN seq}

Occurrences(seq, x) == Cardinality({k \in DOMAIN seq : seq[k] = x})

SameLabel(i, j) == At(labels, i) = At(labels, j)

SingleClass == Cardinality(unique_class(labels)) = 1
AllUnique == Cardinality(unique_class(labels)) = N

\* get_all_pairs returned the exact partition of the C(N,2) index pairs.
ExactPartition ==
    /\ ~result.raised
    /\ Range(result.pos) =
           {pr \in Idx \X Idx : pr[1] < pr[2] /\ SameLabel(pr[1], pr[2])}
    /\ Range(result.neg) =
           {pr \in Idx \X Idx : pr[1] < pr[2] /\ ~SameLabel(pr[1], pr[2])}
    /\ \A pr \in Idx \X Idx :
           pr[1] < pr[2] => Occurrences(result.pos \o result.neg, pr) = 1
    /\ 2 * (Len(result.pos) + Len(result.neg)) = N * (N - 1)
    /\ \A pr \in Range(result.pos \o result.neg) : pr[1] # pr[2]

\* C3 (as claimed): for every label vector of length N >= 1 get_all_pairs
\* returns as positive pairs exactly the (i, j), 0 <= i < j < N, with equal
\* labels and as negative pairs exactly those with different labels; together
\* they hold each of the C(N,2) unordered pairs once, and no pair has i = j.
C3_AllPairsExact ==
    result.op = "get_all_pairs" => ExactPartition

\* Side result for C3: the partition is exact for batches of 2 .. UInt8Range
\* rows (the batch sizes where get_all_pairs neither raises nor wraps).
AllPairsExactFrom2 ==
    (result.op = "get_all_pairs" /\ N >= 2 /\ N <= UInt8Range) => ExactPartition

\* The pair (i, j) is a pair of batch positions in increasing order.
TruePair(pr) == 0 <= pr[1] /\ pr[1] < pr[2] /\ pr[2] < N

\* C13 (as claimed): for every batch size N, N > 256 included, the indices
\* get_all_pairs returns are the true batch positions: every returned pair
\* (i, j) has 0 <= i < j < N, the positive pairs have equal and the negative
\* pairs different labels at those positions, and the pairs number C(N,2);
\* the 8-bit unsigned cast truncates none of them.
C13_TruePositions ==
    (result.op = "get_all_pairs" /\ ~result.raised) =>
        /\ \A k \in DOMAIN result.pos :
               TruePair(result.pos[k]) /\ SameLabel(result.pos[k][1], result.pos[k][2])
        /\ \A k \in DOMAIN result.neg :
               TruePair(result.neg[k]) /\ ~SameLabel(result.neg[k][1], result.neg[k][2])
        /\ 2 * (Len(result.pos) + Len(result.neg)) = N * (N - 1)

\* PairSelector.select returned the pairs of get_pairs, positives first, as
\* gathered rows with similarity labels 1 / 0.
PairLayout ==
    LET pr == get_all_pairs(labels)
        all == pr.pos \o pr.neg
    IN  /\ ~result.raised
        /\ Len(result.first) = Len(all)
        /\ Len(result.second) = Len(all)
        /\ Len(result.sim) = Len(all)
        /\ \A k \in DOMAIN all :
               /\ result.first[k] = At(embeddings, all[k][1])
               /\ result.second[k] = At(embeddings, all[k][2])
               /\ result.sim[k] = (IF k <= Len(pr.pos) THEN 1 ELSE 0)

PairSelectCalled ==
    result.op = "AllPairSelector.select" /\ ~get_all_pairs(labels).raised

\* C4 (as claimed): whenever get_pairs hands pairs to PairSelector.select, it
\* returns first, second and labels of length |pos_pairs| + |neg_pairs|, the
\* positive pairs first and the negative pairs after them, both in get_pairs
\* order; first[k] and second[k] are the embedding rows of the k-th pair and
\* labels[k] is 1 for the positive positions and 0 for the negative ones.
C4_PairSelectLayout ==
    PairSelectCalled => PairLayout

\* Side result for C4: the layout is as stated when the embeddings are on
\* the CPU.
PairSelectLayoutOnCpu ==
    (PairSelectCalled /\ device = "cpu") => PairLayout

\* The triplets (a, p, n1) over positive pairs (a, p) and negative pairs
\* (n0, n1) with n0 = a, as the set of (position of the positive pair,
\* position of the negative pair) that contribute one.
Joined(pos, neg) ==
    {kk \in (DOMAIN pos) \X (DOMAIN neg) : pos[kk[1]][1] = neg[kk[2]][1]}

\* get_all_triplets returned the join of the pairs of get_all_pairs in loop
\* order, and every triplet is (anchor, positive, negative) by its labels.
TripletJoin ==
    /\ ~result.raised
    /\ LET pr == get_all_pairs(labels)
           J == Joined(pr.pos, pr.neg)
           \* number of contributing pairs that precede kk in loop order
           Rank(kk) == Cardinality({jj \in J :
                           \/ jj[1] < kk[1]
                           \/ jj[1] = kk[1] /\ jj[2] < kk[2]})
       IN  /\ Len(result.triplets) = Cardinality(J)
           /\ \A kk \in J :
                  result.triplets[Rank(kk) + 1] =
                      <<pr.pos[kk[1]][1], pr.pos[kk[1]][2], pr.neg[kk[2]][2]>>
    /\ \A k \in DOMAIN result.triplets :
           LET t == result.triplets[k]
           IN  /\ SameLabel(t[1], t[2])
               /\ ~SameLabel(t[1], t[3])
               /\ t[1] # t[2]

\* C5 (as claimed): get_all_triplets returns exactly the triplets (a, p, n1)
\* for every positive pair (a, p) and negative pair (n0, n1) of get_all_pairs
\* with n0 = a, the positive pairs as the outer and the negative pairs as the
\* inner loop; every triplet has label[a] = label[p] # label[n1] and a # p.
C5_TripletJoin ==
    result.op = "get_all_triplets" => TripletJoin

\* Side result for C5: the join is as stated for batches of 2 .. UInt8Range
\* rows.
TripletJoinFrom2 ==
    (result.op = "get_all_triplets" /\ N >= 2 /\ N <= UInt8Range) => TripletJoin

\* C6 (as claimed): AllTriplets treats anchors symmetrically: for every index
\* a with a same-label index p # a and a different-label index n, the triplet
\* (a, p, n) is emitted.
C6_TripletsSymmetric ==
    result.op = "get_all_triplets" =>
        \A a \in Idx, p \in Idx, n \in Idx :
            (a # p /\ SameLabel(a, p) /\ ~SameLabel(a, n)) =>
                <<a, p, n>> \in Range(result.triplets)

\* Index a may serve as anchor of a batch-hard triplet: its class has at
\* least two members and another class is present.
Eligible(a) ==
    /\ \E p \in Idx : p # a /\ SameLabel(a, p)
    /\ \E n \in Idx : ~SameLabel(a, n)

\* C7: get_batch_hard_triplets emits exactly one triplet (a, p, n) for each
\* index a whose class has at least 2 members while another class is present,
\* and none for any other index; p is a same-class index # a at maximum
\* distance from a and n a different-class index at minimum distance from a.
C7_BatchHard ==
    result.op = "get_batch_hard_triplets" =>
        /\ ~result.raised
        /\ \A a \in Idx :
               Cardinality({k \in DOMAIN result.triplets :
                               result.triplets[k][1] = a})
                   = (IF Eligible(a) THEN 1 ELSE 0)
        /\ \A k \in DOMAIN result.triplets :
               LET a == result.triplets[k][1]
                   p == result.triplets[k][2]
                   n == result.triplets[k][3]
               IN  /\ a \in Idx /\ p \in Idx /\ n \in Idx
                   /\ p # a /\ SameLabel(a, p) /\ ~SameLabel(a, n)
                   /\ \A q \in Idx :
                          (q # a /\ SameLabel(a, q)) =>
                              dist_mat(embeddings, a, q) <= dist_mat(embeddings, a, p)
                   /\ \A m \in Idx :
                          ~SameLabel(a, m) =>
                              dist_mat(embeddings, a, n) <= dist_mat(embeddings, a, m)

\* C7 witness: a returned triplet whose anchor had a nearer positive to
\* choose from and whose negative is strictly nearer than its positive, in a
\* batch where some index (a singleton class) got no triplet.
C7_Witness ==
    /\ result.op = "get_batch_hard_triplets"
    /\ \E k \in DOMAIN result.triplets :
           LET a == result.triplets[k][1]
               p == result.triplets[k][2]
               n == result.triplets[k][3]
           IN  /\ \E q \in Idx :
                      /\ q # a /\ SameLabel(a, q)
                      /\ dist_mat(embeddings, a, q) < dist_mat(embeddings, a, p)
               /\ dist_mat(embeddings, a, n) < dist_mat(embeddings, a, p)
    /\ \E b \in Idx :
           /\ ~Eligible(b)
           /\ \A k \in DOMAIN result.triplets : result.triplets[k][1] # b

SelectOps ==
    {"AllPairSelector.select", "AllTripletSelector.select",
     "BatchHardTripletSelector.select"}

\* C8 (as claimed): on a batch with a single distinct label and on a batch
\* whose labels are all unique, every selector's select completes without
\* raising; the triplet selectors return empty anchor / positive / negative
\* tensors, the pair selector returns no negative pairs in the single-class
\* case and no positive pairs in the all-unique case.
C8_DegenerateBatches ==
    (result.op \in SelectOps /\ (SingleClass \/ AllUnique)) =>
        /\ ~result.raised
        /\ result.op # "AllPairSelector.select" =>
               /\ result.first = <<>>
               /\ result.second = <<>>
               /\ result.third = <<>>
        /\ (result.op = "AllPairSelector.select" /\ SingleClass) =>
               result.neg = <<>>
        /\ (result.op = "AllPairSelector.select" /\ AllUnique) =>
               result.pos = <<>>

----------------------------------------------------------------------------
\* Properties of the regularizer extensions

\* C9: an after_losses call of a regularizer whose loss_name is not a key of
\* the loss payload fails at that call: it does not return a payload, no
\* entry of the payload is modified and hook.store, self.output and
\* self.input are left as they were.
C9_MissingLossFails ==
    [][(NotCalled /\ reg_result'.op # "none" /\ loss_name \notin DOMAIN losses)
         => /\ reg_result'.outcome # "returned"
            /\ losses' = losses
            /\ hook_store' = hook_store
            /\ self_output' = self_output
            /\ self_input' = self_input]_vars

\* C9 witness: ActivationRegularization.after_losses was called with a
\* loss_name missing from a non-empty payload while the hook held an
\* activation; the call failed and the activation is still stored.
C9_Witness ==
    /\ reg_result.op = "ActivationRegularization"
    /\ loss_name \notin DOMAIN losses
    /\ DOMAIN losses # {}
    /\ reg_result.outcome \in {"AssertionError", "KeyError"}
    /\ hook_store # None

----------------------------------------------------------------------------
\* Properties of stochastic weight averaging

\* The counter values at which the configured timescale averages.
ShouldUpdate(c) == c >= swa.after /\ c % swa.every = 0

\* The hook of the configured timescale and the counter it is called with next.
OwnHook == IF swa.timescale = "epoch" THEN "on_epoch_end" ELSE "on_batch_end"
OwnCounter == IF swa.timescale = "epoch" THEN swa.epoch ELSE swa.iter

====
